---------------------------- MODULE Spec2Model ----------------------------
(***************************************************************************)
(* IceCreamSwapWeb3: the resilient RPC execution layer.                    *)
(*                                                                         *)
(*   exponential_retry        src/IceCreamSwapWeb3/EthAdvanced.py          *)
(*   EthAdvanced.get_logs     src/IceCreamSwapWeb3/EthAdvanced.py          *)
(*   _find_max_filter_range   src/IceCreamSwapWeb3/EthAdvanced.py          *)
(*   BatchRetryMiddleware     src/IceCreamSwapWeb3/BatchRetryMiddleware.py *)
(*                                                                         *)
(* The code is synchronous and recursive.  Recursion is modelled by an     *)
(* explicit call stack; one action is the code that runs between two calls *)
(* (a transport call, a recursive call, or a call of the retry wrapper).   *)
(* The transport (make_request, make_batch_request, _get_logs) is the      *)
(* environment: each call nondeterministically returns or raises.          *)
(* calls and sleeps are history variables: every transport call and every  *)
(* sleep of the running top-level call, in order.                          *)
(***************************************************************************)
EXTENDS Integers, Sequences, FiniteSets

VARIABLES
    should_retry,         \* w3.should_retry
    rpc_batch_max_size,   \* w3.rpc_batch_max_size
    filter_block_range,   \* EthAdvanced.filter_block_range
    rw,                   \* the activation of exponential_retry's inner()
    bstack,               \* call stack of middleware(requests_info)
    bret,                 \* value returned by the last middleware() call
    lstack,               \* call stack of get_logs(filter_params)
    lret,                 \* value returned by the last get_logs() call
    cal,                  \* the activation of _find_max_filter_range
    ep,                   \* behaviour of the endpoint during calibration
    head,                 \* chain head as last observed
    progress,             \* total handed to p_bar.update
    has_pbar,             \* a progress bar is in use
    top_range,            \* block range of the top-level get_logs call, as resolved
    calls,                \* history: transport calls
    sleeps,               \* history: arguments of sleep()
    faults,               \* exceptions, short answers and failed responses so far
    budget,               \* cap on faults for this run
    result,               \* outcome of the top-level call
    input                 \* argument of the top-level call

vars == << should_retry, rpc_batch_max_size, filter_block_range, rw, bstack,
           bret, lstack, lret, cal, ep, head, progress, has_pbar, top_range,
           calls, sleeps, faults, budget, result, input >>

(* What a run never changes *)
conf == << should_retry, rpc_batch_max_size, budget, has_pbar, input >>

-----------------------------------------------------------------------------
(* Bounds of the model *)

MaxRetries == 8      \* failures injected into one stand-alone retry loop
MaxReqs == 6         \* longest top-level request list
MaxBatch == 3        \* largest rpc_batch_max_size
MaxFaults == 2       \* exceptions and failed responses of the transport per run
MaxBlocks == 5       \* largest top-level block range
MaxFrom == 0         \* largest top-level fromBlock
MaxFilterRange == 3  \* largest filter_block_range
MaxAdvance == 1      \* blocks the chain head may gain during a run

-----------------------------------------------------------------------------
(* Values *)

ContractLogicError == "ContractLogicError"
Transient == {"ConnectionError", "TimeoutError"}
Exceptions == Transient \cup {ContractLogicError}
Values == {"v1", "v2"}

Range(s) == {s[i] : i \in DOMAIN s}
Last(s) == s[Len(s)]
Min(a, b) == IF a < b THEN a ELSE b

Running == [status |-> "running", value |-> << >>, error |-> ""]
Returned(v) == [status |-> "returned", value |-> v, error |-> ""]
Raised(e) == [status |-> "raised", value |-> << >>, error |-> e]

IdleRw == [pc |-> "idle", op |-> "", arg |-> << >>, no_retry |-> FALSE,
           retries |-> 0, out |-> << >>, err |-> ""]
IdleCal == [pc |-> "idle", i |-> 0, current_block |-> 0]
NoEp == [kind |-> "none", limit |-> 0]

(* One transport call in the history.  arg: the requests sent (request    *)
(* ids) or the block range <<from, to>> the endpoint served; out: "ok",   *)
(* "failed" (a response with an error or a null result), "mismatch" or    *)
(* the exception raised; bad: the failed positions of a batch response;   *)
(* val: what the call returned.                                           *)
Call(op, arg, out, bad, val) ==
    [op |-> op, arg |-> arg, out |-> out, bad |-> bad, val |-> val]

(* Number of times request r was handed to the transport in calls 1..j *)
SentUpTo(r, j) ==
    Cardinality({l \in 1..j : calls[l].op \in {"make_request", "make_batch_request"}
                              /\ r \in Range(calls[l].arg)})
Sent(r) == SentUpTo(r, Len(calls))

-----------------------------------------------------------------------------
(* exponential_retry: EthAdvanced.py 8-32 *)

(* lines 21-26 *)
wait_for_broken(retries) ==
    IF retries = 0 THEN 0
    ELSE IF retries < 6 THEN 2 ^ retries
    ELSE 30

wait_for(retries) ==
    IF retries = 0 THEN 0
    ELSE IF retries < 6 THEN 2 ^ (retries - 1)
    ELSE 30

(* line 19: the errors inner() re-raises instead of retrying *)
IsNonRetriable(e) == e = ContractLogicError

(* lines 11-12 and 19-20: an exception of func leaves inner() at once *)
Propagates_no_flag(no_retry, e) == IsNonRetriable(e)

Propagates_retry_all(no_retry, e) == no_retry

Propagates(no_retry, e) == no_retry \/ IsNonRetriable(e)

(* inner() is entered around func op with arguments arg *)
StartRetry(op, arg, no_retry) ==
    [pc |-> "call", op |-> op, arg |-> arg, no_retry |-> no_retry,
     retries |-> 0, out |-> << >>, err |-> ""]

-----------------------------------------------------------------------------
(* The transport, as seen through func *)

Num(n) == [tag |-> "int", n |-> n]
LatestTag == [tag |-> "latest", n |-> 0]

(* get_block(tag)["number"], and the endpoint's own reading of a block tag *)
Resolve(b, h) == IF b.tag = "int" THEN b.n ELSE h

(* The endpoint's logs for blocks f..t: one entry per block, ascending *)
Blocks(f, t) == [i \in 1..(t - f + 1) |-> f + i - 1]

(* The highest block the chain reaches during a run *)
HeadCap == MaxFrom + MaxBlocks - 1 + MaxAdvance

IsSymbolic(filter_params) ==
    filter_params[1].tag # "int" \/ filter_params[2].tag # "int"

(* The chain heads a call may observe: the head never goes back, and a   *)
(* call with numeric bounds does not read it.                            *)
Heads(filter_params) == IF IsSymbolic(filter_params) THEN head..HeadCap ELSE {head}

(* A JSON-RPC response to request r, the att-th time r is sent *)
Response(r, att, st) == [req |-> r, att |-> att, st |-> st]
ResponseStates == {"ok", "error", "null"}

(* The normal returns of func(arg): what is returned, what the history   *)
(* records, and the chain head afterwards.                               *)
Answers(op, arg) ==
    IF op = "make_request" THEN
        { [out |-> << Response(arg[1], Sent(arg[1]) + 1, st) >>,
           tag |-> IF st = "ok" THEN "ok" ELSE "failed",
           arg |-> arg, head |-> head] : st \in ResponseStates }
    ELSE IF op = "_get_logs" THEN
        { [out |-> Blocks(Resolve(arg[1], h), Resolve(arg[2], h)),
           tag |-> "ok",
           arg |-> << Resolve(arg[1], h), Resolve(arg[2], h) >>,
           head |-> h] : h \in Heads(arg) }
    ELSE
        { [out |-> << v >>, tag |-> "ok", arg |-> arg, head |-> head] : v \in Values }

(* What the history records for a call of func(arg) that raises *)
RaisedArg(op, arg) ==
    IF op = "_get_logs" THEN << Resolve(arg[1], head), Resolve(arg[2], head) >>
    ELSE arg

-----------------------------------------------------------------------------
(* inner(): lines 10-30 *)

(* lines 12 / 17: func returns *)
RetryReturn ==
    /\ rw.pc = "call"
    /\ \E o \in Answers(rw.op, rw.arg) :
        /\ o.tag # "ok" => faults < budget
        /\ rw' = [rw EXCEPT !.pc = "returned", !.out = o.out]
        /\ calls' = Append(calls, Call(rw.op, o.arg, o.tag, {}, o.out))
        /\ faults' = IF o.tag = "ok" THEN faults ELSE faults + 1
        /\ head' = o.head
        /\ result' = IF rw.op = "func" THEN Returned(o.out) ELSE result
    /\ UNCHANGED << conf, filter_block_range, bstack, bret, lstack, lret, cal,
                    ep, progress, top_range, sleeps >>

(* line 12 with no_retry, or lines 19-20: the exception leaves inner() *)
RetryRaise ==
    /\ rw.pc = "call"
    /\ faults < budget
    /\ \E e \in Exceptions :
        /\ Propagates(rw.no_retry, e)
        /\ rw' = [rw EXCEPT !.pc = "raised", !.err = e]
        /\ calls' = Append(calls, Call(rw.op, RaisedArg(rw.op, rw.arg), e, {}, << >>))
        /\ result' = IF rw.op = "func" THEN Raised(e) ELSE result
    /\ faults' = faults + 1
    /\ UNCHANGED << conf, filter_block_range, bstack, bret, lstack, lret, cal,
                    ep, head, progress, top_range, sleeps >>

(* lines 18-30: the exception is logged, inner() sleeps and loops *)
RetrySleep ==
    /\ rw.pc = "call"
    /\ faults < budget
    /\ \E e \in Exceptions :
        /\ ~Propagates(rw.no_retry, e)
        /\ calls' = Append(calls, Call(rw.op, RaisedArg(rw.op, rw.arg), e, {}, << >>))
    /\ rw' = [rw EXCEPT !.retries = rw.retries + 1]
    /\ sleeps' = Append(sleeps, wait_for(rw.retries))
    /\ faults' = faults + 1
    /\ UNCHANGED << conf, filter_block_range, bstack, bret, lstack, lret, cal,
                    ep, head, progress, top_range, result >>

(* A stand-alone call of a wrapped function: exponential_retry(name)(func) *)
InitRetry ==
    /\ should_retry = TRUE
    /\ rpc_batch_max_size = 0
    /\ filter_block_range = 1
    /\ \E nr \in BOOLEAN : rw = StartRetry("func", << >>, nr)
    /\ input = << >>
    /\ bstack = << >>
    /\ bret = << >>
    /\ lstack = << >>
    /\ lret = << >>
    /\ cal = IdleCal
    /\ ep = NoEp
    /\ head = 0
    /\ progress = 0
    /\ has_pbar = FALSE
    /\ top_range = << >>
    /\ calls = << >>
    /\ sleeps = << >>
    /\ faults = 0
    /\ budget = MaxRetries
    /\ result = Running

NextRetry == RetryReturn \/ RetryRaise \/ RetrySleep

SpecRetry == InitRetry /\ [][NextRetry]_vars

-----------------------------------------------------------------------------
(* BatchRetryMiddleware.wrap_make_batch_request.middleware:                *)
(* BatchRetryMiddleware.py 13-64                                           *)

(* line 21: requests_info[start:start + rpc_batch_max_size] *)
Chunk(requests_info, start, size) ==
    SubSeq(requests_info, start + 1, Min(start + size, Len(requests_info)))

(* line 46 *)
IsFailed_error_only(response_single) == response_single.st = "error"

IsFailed(response_single) ==
    response_single.st = "error" \/ response_single.st = "null"

(* lines 43-48: the old_idx of request_indexes; new_idx is the position *)
RECURSIVE FailedFrom(_, _)
FailedFrom(response, i) ==
    IF i > Len(response) THEN << >>
    ELSE IF IsFailed(response[i]) THEN << i >> \o FailedFrom(response, i + 1)
    ELSE FailedFrom(response, i + 1)

RequestIndexes(response) == FailedFrom(response, 1)

(* lines 43-48: requests_retry *)
RequestsRetry_all(requests_info, request_indexes) == requests_info

RequestsRetry(requests_info, request_indexes) ==
    [k \in 1..Len(request_indexes) |-> requests_info[request_indexes[k]]]

(* lines 57-58 *)
Splice_shifted(response, request_indexes, response_new) ==
    [i \in 1..Len(response) |->
        IF \E k \in 1..Len(request_indexes) : request_indexes[k] = i
        THEN response_new[1]
        ELSE response[i]]

Splice(response, request_indexes, response_new) ==
    [i \in 1..Len(response) |->
        IF \E k \in 1..Len(request_indexes) : request_indexes[k] = i
        THEN response_new[CHOOSE k \in 1..Len(request_indexes) : request_indexes[k] = i]
        ELSE response[i]]

(* line 63 *)
Middle_zero(n) == 0

Middle(n) == n \div 2

(* line 64 *)
LeftHalf(requests_info) == SubSeq(requests_info, 1, Middle(Len(requests_info)))
RightHalf(requests_info) ==
    SubSeq(requests_info, Middle(Len(requests_info)) + 1, Len(requests_info))

(* line 64: middleware(left) + middleware(right) *)
Concat_swapped(left, right) == right \o left

Concat(left, right) == left \o right

(* line 25 *)
MakesIndividualRequests(requests_info) ==
    rpc_batch_max_size = 0 \/ Len(requests_info) = 1

(* line 18 *)
ExceedsBatchSize_never(requests_info) == FALSE

ExceedsBatchSize(requests_info) == Len(requests_info) > rpc_batch_max_size

(* A new activation of middleware(requests_info) *)
Frame(requests_info) ==
    [requests_info |-> requests_info, pc |-> "enter", start |-> 0,
     response |-> << >>, request_indexes |-> << >>]

BTop == bstack[Len(bstack)]
BAt(pc) == bstack # << >> /\ BTop.pc = pc

(* return v *)
BReturn(v) ==
    /\ bstack' = SubSeq(bstack, 1, Len(bstack) - 1)
    /\ bret' = v
    /\ result' = IF Len(bstack) = 1 THEN Returned(v) ELSE result

(* an exception no frame of middleware() catches: the recursive calls are *)
(* made outside the try block (lines 21, 56, 64)                          *)
BRaise(e) ==
    /\ bstack' = << >>
    /\ bret' = bret
    /\ result' = Raised(e)

(* the running frame becomes f and calls middleware(requests) *)
BCall(f, requests) ==
    /\ bstack' = Append([bstack EXCEPT ![Len(bstack)] = f], Frame(requests))
    /\ bret' = bret
    /\ result' = result

(* lines 63-64: the left half is executed first *)
Bisect ==
    BCall([BTop EXCEPT !.pc = "left"], LeftHalf(BTop.requests_info))

(* lines 41-60, with response of the right length *)
Classify(response) ==
    LET request_indexes == RequestIndexes(response)
        requests_retry == RequestsRetry(BTop.requests_info, request_indexes)
    IN  IF Len(requests_retry) # 0
        THEN /\ sleeps' = IF Len(requests_retry) = Len(BTop.requests_info)
                          THEN Append(sleeps, 1) ELSE sleeps
             /\ BCall([BTop EXCEPT !.pc = "splice", !.response = response,
                                   !.request_indexes = request_indexes],
                      requests_retry)
        ELSE /\ sleeps' = sleeps
             /\ BReturn(response)

(* lines 14-16 *)
BatchEmpty ==
    /\ BAt("enter")
    /\ Len(BTop.requests_info) = 0
    /\ BReturn(<< >>)
    /\ UNCHANGED << conf, filter_block_range, rw, lstack, lret, cal, ep, head,
                    progress, top_range, calls, sleeps, faults >>

(* lines 18-21: the first chunk *)
BatchChunkStart ==
    /\ BAt("enter")
    /\ Len(BTop.requests_info) # 0
    /\ ExceedsBatchSize(BTop.requests_info)
    /\ rpc_batch_max_size # 0
    /\ BCall([BTop EXCEPT !.pc = "chunk", !.start = 0, !.response = << >>],
             Chunk(BTop.requests_info, 0, rpc_batch_max_size))
    /\ UNCHANGED << conf, filter_block_range, rw, lstack, lret, cal, ep, head,
                    progress, top_range, calls, sleeps, faults >>

(* line 20 with rpc_batch_max_size = 0: range() with step 0 raises *)
BatchChunkZeroStep ==
    /\ BAt("enter")
    /\ Len(BTop.requests_info) # 0
    /\ ExceedsBatchSize(BTop.requests_info)
    /\ rpc_batch_max_size = 0
    /\ BRaise("ValueError")
    /\ UNCHANGED << conf, filter_block_range, rw, lstack, lret, cal, ep, head,
                    progress, top_range, calls, sleeps, faults >>

(* lines 20-22: a chunk returned *)
BatchChunkNext ==
    /\ BAt("chunk")
    /\ LET response == BTop.response \o bret
           start == BTop.start + rpc_batch_max_size
       IN  IF start < Len(BTop.requests_info)
           THEN BCall([BTop EXCEPT !.start = start, !.response = response],
                      Chunk(BTop.requests_info, start, rpc_batch_max_size))
           ELSE BReturn(response)
    /\ UNCHANGED << conf, filter_block_range, rw, lstack, lret, cal, ep, head,
                    progress, top_range, calls, sleeps, faults >>

(* lines 25-34: the first individual request *)
BatchSingleStart ==
    /\ BAt("enter")
    /\ Len(BTop.requests_info) # 0
    /\ ~ExceedsBatchSize(BTop.requests_info)
    /\ MakesIndividualRequests(BTop.requests_info)
    /\ rw.pc = "idle"
    /\ rw' = StartRetry("make_request", << BTop.requests_info[1] >>, ~should_retry)
    /\ bstack' = [bstack EXCEPT ![Len(bstack)] =
                     [BTop EXCEPT !.pc = "single", !.start = 1, !.response = << >>]]
    /\ UNCHANGED << conf, filter_block_range, bret, lstack, lret, cal, ep, head,
                    progress, top_range, calls, sleeps, faults, result >>

(* lines 27-34 and 41-60: an individual request returned *)
BatchSingleDone ==
    /\ BAt("single")
    /\ rw.pc = "returned"
    /\ LET response == BTop.response \o rw.out
       IN  IF BTop.start < Len(BTop.requests_info)
           THEN /\ rw' = StartRetry("make_request",
                                    << BTop.requests_info[BTop.start + 1] >>,
                                    ~should_retry)
                /\ bstack' = [bstack EXCEPT ![Len(bstack)] =
                                 [BTop EXCEPT !.start = BTop.start + 1,
                                              !.response = response]]
                /\ UNCHANGED << bret, result, sleeps >>
           ELSE /\ rw' = IdleRw
                /\ Classify(response)
    /\ UNCHANGED << conf, filter_block_range, lstack, lret, cal, ep, head,
                    progress, top_range, calls, faults >>

(* lines 37-39 and 63-64: an individual request raised *)
BatchSingleRaised ==
    /\ BAt("single")
    /\ rw.pc = "raised"
    /\ rw' = IdleRw
    /\ IF Len(BTop.requests_info) > 1
       THEN Bisect
       ELSE BRaise("AssertionError")
    /\ UNCHANGED << conf, filter_block_range, lstack, lret, cal, ep, head,
                    progress, top_range, calls, sleeps, faults >>

BatchCallEnabled ==
    /\ BAt("enter")
    /\ Len(BTop.requests_info) # 0
    /\ ~ExceedsBatchSize(BTop.requests_info)
    /\ ~MakesIndividualRequests(BTop.requests_info)

(* lines 36-39 and 63-64: make_batch_request raises *)
BatchCallRaise ==
    /\ BatchCallEnabled
    /\ faults < budget
    /\ \E e \in Exceptions :
        calls' = Append(calls, Call("make_batch_request", BTop.requests_info, e,
                                    {}, << >>))
    /\ faults' = faults + 1
    /\ IF Len(BTop.requests_info) > 1
       THEN Bisect
       ELSE BRaise("AssertionError")
    /\ UNCHANGED << conf, filter_block_range, rw, lstack, lret, cal, ep, head,
                    progress, top_range, sleeps >>

(* lines 36, 41, 61-64: make_batch_request returns m # len(requests_info) *)
(* responses                                                               *)
BatchCallMismatch ==
    /\ BatchCallEnabled
    /\ faults < budget
    /\ \E m \in {Len(BTop.requests_info) - 1, Len(BTop.requests_info) + 1} :
        LET n == Len(BTop.requests_info)
            response == [i \in 1..m |->
                Response(BTop.requests_info[Min(i, n)],
                         Sent(BTop.requests_info[Min(i, n)]) + 1, "ok")]
        IN  /\ m # n
            /\ calls' = Append(calls, Call("make_batch_request", BTop.requests_info,
                                           "mismatch", {}, response))
    /\ faults' = faults + 1
    /\ Bisect
    /\ UNCHANGED << conf, filter_block_range, rw, lstack, lret, cal, ep, head,
                    progress, top_range, sleeps >>

(* lines 36, 41-60: make_batch_request returns one response per request *)
BatchCallMatch ==
    /\ BatchCallEnabled
    /\ \E sts \in [1..Len(BTop.requests_info) -> ResponseStates] :
        LET response == [i \in 1..Len(BTop.requests_info) |->
                Response(BTop.requests_info[i], Sent(BTop.requests_info[i]) + 1,
                         sts[i])]
            bad == {i \in 1..Len(response) : IsFailed(response[i])}
        IN  /\ faults + Cardinality(bad) <= budget
            /\ faults' = faults + Cardinality(bad)
            /\ calls' = Append(calls, Call("make_batch_request", BTop.requests_info,
                                           IF bad = {} THEN "ok" ELSE "failed",
                                           bad, response))
            /\ Classify(response)
    /\ UNCHANGED << conf, filter_block_range, rw, lstack, lret, cal, ep, head,
                    progress, top_range >>

(* lines 56-60: the failed requests were executed again *)
BatchSplice ==
    /\ BAt("splice")
    /\ BReturn(Splice(BTop.response, BTop.request_indexes, bret))
    /\ UNCHANGED << conf, filter_block_range, rw, lstack, lret, cal, ep, head,
                    progress, top_range, calls, sleeps, faults >>

(* line 64: the left half returned *)
BatchLeftDone ==
    /\ BAt("left")
    /\ BCall([BTop EXCEPT !.pc = "right", !.response = bret],
             RightHalf(BTop.requests_info))
    /\ UNCHANGED << conf, filter_block_range, rw, lstack, lret, cal, ep, head,
                    progress, top_range, calls, sleeps, faults >>

(* line 64: the right half returned *)
BatchRightDone ==
    /\ BAt("right")
    /\ BReturn(Concat(BTop.response, bret))
    /\ UNCHANGED << conf, filter_block_range, rw, lstack, lret, cal, ep, head,
                    progress, top_range, calls, sleeps, faults >>

(* The request list of the top-level call: request k is the k-th request *)
Requests(n) == [k \in 1..n |-> k]

(* make_batch_request wrapped by the middleware is called with n requests *)
InitBatch ==
    /\ should_retry \in BOOLEAN
    /\ rpc_batch_max_size \in 0..MaxBatch
    /\ filter_block_range = 1
    /\ rw = IdleRw
    /\ input \in {Requests(n) : n \in 0..MaxReqs}
    /\ bstack = << Frame(input) >>
    /\ bret = << >>
    /\ lstack = << >>
    /\ lret = << >>
    /\ cal = IdleCal
    /\ ep = NoEp
    /\ head = 0
    /\ progress = 0
    /\ has_pbar = FALSE
    /\ top_range = << >>
    /\ calls = << >>
    /\ sleeps = << >>
    /\ faults = 0
    /\ budget = MaxFaults
    /\ result = Running

NextBatch ==
    \/ BatchEmpty
    \/ BatchChunkStart
    \/ BatchChunkZeroStep
    \/ BatchChunkNext
    \/ BatchSingleStart
    \/ BatchSingleDone
    \/ BatchSingleRaised
    \/ BatchCallRaise
    \/ BatchCallMismatch
    \/ BatchCallMatch
    \/ BatchSplice
    \/ BatchLeftDone
    \/ BatchRightDone
    \/ RetryReturn
    \/ RetryRaise
    \/ RetrySleep

SpecBatch == InitBatch /\ [][NextBatch]_vars

-----------------------------------------------------------------------------
(* EthAdvanced.get_logs: EthAdvanced.py 88-147 *)

(* A new activation of get_logs(filter_params) *)
LFrame(filter_params) ==
    [filter_params |-> filter_params, pc |-> "enter", from_block |-> 0,
     to_block |-> 0, filter_start |-> 0, results |-> << >>]

LTop == lstack[Len(lstack)]
LAt(pc) == lstack # << >> /\ LTop.pc = pc

(* line 98 *)
NumBlocks(f) == f.to_block - f.from_block + 1

(* lines 110-113 *)
PartialFilter_unclipped(filter_start, to_block) ==
    << Num(filter_start), Num(filter_start + filter_block_range - 1) >>

PartialFilter(filter_start, to_block) ==
    << Num(filter_start), Num(Min(filter_start + filter_block_range - 1, to_block)) >>

(* line 131 *)
MidBlock_up(from_block, to_block) == (from_block + to_block + 1) \div 2

MidBlock(from_block, to_block) == (from_block + to_block) \div 2

(* lines 132-133 *)
LeftFilter(f) ==
    << f.filter_params[1], Num(MidBlock(f.from_block, f.to_block)) >>

(* lines 134-135 *)
RightFilter(f) ==
    << Num(MidBlock(f.from_block, f.to_block) + 1), f.filter_params[2] >>

(* line 122 *)
ReRaises_never(f) == FALSE

ReRaises(f) == ~should_retry /\ NumBlocks(f) = 1

(* lines 125-126 and 145-146 *)
PBarUpdate_once(n) == IF has_pbar /\ progress = 0 THEN n ELSE progress

PBarUpdate(n) == IF has_pbar THEN progress + n ELSE progress

(* return v *)
LReturn(v) ==
    /\ lstack' = SubSeq(lstack, 1, Len(lstack) - 1)
    /\ lret' = v
    /\ result' = IF Len(lstack) = 1 THEN Returned(v) ELSE result

(* an exception no frame of get_logs() catches: the recursive calls and  *)
(* the retried query are outside the try block (lines 114, 138, 139, 144) *)
LRaise(e) ==
    /\ lstack' = << >>
    /\ lret' = lret
    /\ result' = Raised(e)

(* the running frame becomes f and calls get_logs(filter_params) *)
LCall(f, filter_params) ==
    /\ lstack' = Append([lstack EXCEPT ![Len(lstack)] = f], LFrame(filter_params))
    /\ lret' = lret
    /\ result' = result

(* lines 90-115: the bounds are resolved; a range known to be too large  *)
(* is cut and its first part fetched                                     *)
LogsEnter ==
    /\ LAt("enter")
    /\ \E h \in Heads(LTop.filter_params) :
        LET f == [LTop EXCEPT !.from_block = Resolve(LTop.filter_params[1], h),
                              !.to_block = Resolve(LTop.filter_params[2], h)]
        IN  /\ head' = h
            /\ top_range' = IF Len(lstack) = 1
                            THEN << f.from_block, f.to_block >> ELSE top_range
            /\ IF NumBlocks(f) > filter_block_range
               THEN LCall([f EXCEPT !.pc = "presplit",
                                    !.filter_start = f.from_block,
                                    !.results = << >>],
                          PartialFilter(f.from_block, f.to_block))
               ELSE /\ lstack' = [lstack EXCEPT ![Len(lstack)] =
                                     [f EXCEPT !.pc = "query"]]
                    /\ UNCHANGED << lret, result >>
    /\ UNCHANGED << conf, filter_block_range, rw, bstack, bret, cal, ep,
                    progress, calls, sleeps, faults >>

(* lines 109-115: a part returned *)
LogsPresplitNext ==
    /\ LAt("presplit")
    /\ LET results == LTop.results \o lret
           filter_start == LTop.filter_start + filter_block_range
       IN  IF filter_start < LTop.to_block + 1
           THEN LCall([LTop EXCEPT !.filter_start = filter_start,
                                   !.results = results],
                      PartialFilter(filter_start, LTop.to_block))
           ELSE LReturn(results)
    /\ UNCHANGED << conf, filter_block_range, rw, bstack, bret, cal, ep, head,
                    progress, top_range, calls, sleeps, faults >>

(* lines 119, 124-127: the query succeeds *)
LogsQueryOk ==
    /\ LAt("query")
    /\ \E o \in Answers("_get_logs", LTop.filter_params) :
        /\ calls' = Append(calls, Call("_get_logs", o.arg, "ok", {}, o.out))
        /\ head' = o.head
        /\ LReturn(o.out)
    /\ progress' = PBarUpdate(NumBlocks(LTop))
    /\ UNCHANGED << conf, filter_block_range, rw, bstack, bret, cal, ep,
                    top_range, sleeps, faults >>

(* The query raises e *)
LogsQueryFails(e) ==
    /\ LAt("query")
    /\ faults < budget
    /\ faults' = faults + 1
    /\ calls' = Append(calls, Call("_get_logs",
                                   RaisedArg("_get_logs", LTop.filter_params),
                                   e, {}, << >>))

(* lines 120-123: a single block, and errors are not to be retried *)
LogsQueryReRaise ==
    /\ \E e \in Exceptions :
        /\ LogsQueryFails(e)
        /\ ReRaises(LTop)
        /\ LRaise(e)
    /\ UNCHANGED << conf, filter_block_range, rw, bstack, bret, cal, ep, head,
                    progress, top_range, sleeps >>

(* lines 120-122, 130-138: the range is split, the left half fetched first *)
LogsQueryBisect ==
    /\ \E e \in Exceptions : LogsQueryFails(e)
    /\ ~ReRaises(LTop)
    /\ NumBlocks(LTop) > 1
    /\ LCall([LTop EXCEPT !.pc = "left", !.results = << >>], LeftFilter(LTop))
    /\ UNCHANGED << conf, filter_block_range, rw, bstack, bret, cal, ep, head,
                    progress, top_range, sleeps >>

(* lines 120-122, 130, 143-144: a single block is queried again, through *)
(* exponential_retry                                                     *)
LogsQueryRetry ==
    /\ \E e \in Exceptions : LogsQueryFails(e)
    /\ ~ReRaises(LTop)
    /\ ~(NumBlocks(LTop) > 1)
    /\ rw.pc = "idle"
    /\ IF LTop.from_block = LTop.to_block /\ NumBlocks(LTop) = 1
       THEN /\ rw' = StartRetry("_get_logs", LTop.filter_params, FALSE)
            /\ lstack' = [lstack EXCEPT ![Len(lstack)] = [LTop EXCEPT !.pc = "retry"]]
            /\ UNCHANGED << lret, result >>
       ELSE /\ rw' = rw
            /\ LRaise("AssertionError")
    /\ UNCHANGED << conf, filter_block_range, bstack, bret, cal, ep, head,
                    progress, top_range, sleeps >>

(* lines 138-139: the left half returned *)
LogsLeftDone ==
    /\ LAt("left")
    /\ LCall([LTop EXCEPT !.pc = "right", !.results = lret], RightFilter(LTop))
    /\ UNCHANGED << conf, filter_block_range, rw, bstack, bret, cal, ep, head,
                    progress, top_range, calls, sleeps, faults >>

(* lines 139-140: the right half returned *)
LogsRightDone ==
    /\ LAt("right")
    /\ LReturn(LTop.results \o lret)
    /\ UNCHANGED << conf, filter_block_range, rw, bstack, bret, cal, ep, head,
                    progress, top_range, calls, sleeps, faults >>

(* lines 144-147: the retried query returned *)
LogsRetryDone ==
    /\ LAt("retry")
    /\ rw.pc = "returned"
    /\ rw' = IdleRw
    /\ progress' = PBarUpdate(NumBlocks(LTop))
    /\ LReturn(rw.out)
    /\ UNCHANGED << conf, filter_block_range, bstack, bret, cal, ep, head,
                    top_range, calls, sleeps, faults >>

(* line 144: the retried query raised a non-retriable error *)
LogsRetryRaised ==
    /\ LAt("retry")
    /\ rw.pc = "raised"
    /\ rw' = IdleRw
    /\ LRaise(rw.err)
    /\ UNCHANGED << conf, filter_block_range, bstack, bret, cal, ep, head,
                    progress, top_range, calls, sleeps, faults >>

(* get_logs is called with fromBlock a number and toBlock a number or    *)
(* "latest", 0 <= fromBlock <= toBlock                                   *)
InitLogs ==
    /\ should_retry \in BOOLEAN
    /\ rpc_batch_max_size = 0
    /\ filter_block_range \in 1..MaxFilterRange
    /\ rw = IdleRw
    /\ bstack = << >>
    /\ bret = << >>
    /\ \E from \in 0..MaxFrom :
        \/ /\ \E to \in from..(from + MaxBlocks - 1) :
                input = << Num(from), Num(to) >>
           /\ head = HeadCap
        \/ /\ input = << Num(from), LatestTag >>
           /\ head \in from..(from + MaxBlocks - 1)
    /\ lstack = << LFrame(input) >>
    /\ lret = << >>
    /\ cal = IdleCal
    /\ ep = NoEp
    /\ progress = 0
    /\ has_pbar \in BOOLEAN
    /\ top_range = << >>
    /\ calls = << >>
    /\ sleeps = << >>
    /\ faults = 0
    /\ budget = MaxFaults
    /\ result = Running

NextLogs ==
    \/ LogsEnter
    \/ LogsPresplitNext
    \/ LogsQueryOk
    \/ LogsQueryReRaise
    \/ LogsQueryBisect
    \/ LogsQueryRetry
    \/ LogsLeftDone
    \/ LogsRightDone
    \/ LogsRetryDone
    \/ LogsRetryRaised
    \/ RetryReturn
    \/ RetryRaise
    \/ RetrySleep

SpecLogs == InitLogs /\ [][NextLogs]_vars

-----------------------------------------------------------------------------
(* EthAdvanced._find_max_filter_range: EthAdvanced.py 149-164 *)

(* lines 53-67, without reverse=True *)
FILTER_RANGES_ascending ==
    << 1, 2, 5, 10, 20, 50, 100, 200, 500, 1000, 2000, 5000, 10000 >>

(* lines 53-67: the list, sorted in descending order *)
FILTER_RANGES_TO_TRY ==
    << 10000, 5000, 2000, 1000, 500, 200, 100, 50, 20, 10, 5, 2, 1 >>

(* lines 157-158: the canary query of a candidate *)
CanaryRange_to_head(current_block, filter_range) ==
    << current_block - filter_range + 1, current_block >>

CanaryRange(current_block, filter_range) ==
    << current_block - 5 - filter_range + 1, current_block - 5 >>

(* The endpoints of the calibration: one that rejects exactly the queries *)
(* over more than limit blocks, and one that answers as it likes          *)
LimitEndpoint(limit) == [kind |-> "limit", limit |-> limit]
AnyEndpoint == [kind |-> "any", limit |-> 0]
Limits == {0, 1, 3, 500, 700, 10000}
CurrentBlocks == {100, 20000}

(* What a canary query can end in: [] ("ok"), some logs ("nonempty", on  *)
(* which the assert of line 160 raises inside the try), or an exception  *)
CanaryOutcomes(range) ==
    IF ep.kind = "limit"
    THEN IF range[2] - range[1] + 1 > ep.limit THEN {"ConnectionError"} ELSE {"ok"}
    ELSE {"ok", "nonempty", "ConnectionError"}

CalCandidate == FILTER_RANGES_TO_TRY[cal.i]

(* line 150 *)
CalibStart ==
    /\ cal.pc = "start"
    /\ \E b \in CurrentBlocks :
        cal' = [cal EXCEPT !.pc = "try", !.i = 1, !.current_block = b]
    /\ UNCHANGED << conf, filter_block_range, rw, bstack, bret, lstack, lret,
                    ep, head, progress, top_range, calls, sleeps, faults, result >>

(* lines 151-161, and line 76: the canary query returns [] *)
CalibFound ==
    /\ cal.pc = "try"
    /\ "ok" \in CanaryOutcomes(CanaryRange(cal.current_block, CalCandidate))
    /\ calls' = Append(calls, Call("_get_logs",
                                   CanaryRange(cal.current_block, CalCandidate),
                                   "ok", {}, << >>))
    /\ cal' = [cal EXCEPT !.pc = "done"]
    /\ filter_block_range' = CalCandidate
    /\ result' = Returned(<< CalCandidate >>)
    /\ UNCHANGED << conf, rw, bstack, bret, lstack, lret, ep, head, progress,
                    top_range, sleeps, faults >>

(* lines 151-163: the canary query fails, the next candidate is tried *)
CalibNext ==
    /\ cal.pc = "try"
    /\ cal.i < Len(FILTER_RANGES_TO_TRY)
    /\ \E o \in CanaryOutcomes(CanaryRange(cal.current_block, CalCandidate)) \ {"ok"} :
        calls' = Append(calls, Call("_get_logs",
                                    CanaryRange(cal.current_block, CalCandidate),
                                    o, {}, << >>))
    /\ cal' = [cal EXCEPT !.i = cal.i + 1]
    /\ UNCHANGED << conf, filter_block_range, rw, bstack, bret, lstack, lret,
                    ep, head, progress, top_range, sleeps, faults, result >>

(* lines 162-164: the last candidate fails *)
CalibExhausted ==
    /\ cal.pc = "try"
    /\ cal.i = Len(FILTER_RANGES_TO_TRY)
    /\ \E o \in CanaryOutcomes(CanaryRange(cal.current_block, CalCandidate)) \ {"ok"} :
        calls' = Append(calls, Call("_get_logs",
                                    CanaryRange(cal.current_block, CalCandidate),
                                    o, {}, << >>))
    /\ cal' = [cal EXCEPT !.pc = "done"]
    /\ result' = Raised("ValueError")
    /\ UNCHANGED << conf, filter_block_range, rw, bstack, bret, lstack, lret,
                    ep, head, progress, top_range, sleeps, faults >>

(* EthAdvanced.__init__ calls _find_max_filter_range *)
InitCalib ==
    /\ should_retry \in BOOLEAN
    /\ rpc_batch_max_size = 0
    /\ filter_block_range = 0
    /\ rw = IdleRw
    /\ bstack = << >>
    /\ bret = << >>
    /\ lstack = << >>
    /\ lret = << >>
    /\ cal = [IdleCal EXCEPT !.pc = "start"]
    /\ input = << >>
    /\ ep \in {LimitEndpoint(l) : l \in Limits} \cup {AnyEndpoint}
    /\ head = 0
    /\ progress = 0
    /\ has_pbar = FALSE
    /\ top_range = << >>
    /\ calls = << >>
    /\ sleeps = << >>
    /\ faults = 0
    /\ budget = 0
    /\ result = Running

NextCalib == CalibStart \/ CalibFound \/ CalibNext \/ CalibExhausted

SpecCalib == InitCalib /\ [][NextCalib]_vars

-----------------------------------------------------------------------------
(* Properties of exponential_retry, checked under SpecRetry *)

(* The wait the specification gives for the sleep after the k-th failed *)
(* invocation                                                           *)
Schedule(k) ==
    IF k = 1 THEN 0
    ELSE IF k <= 6 THEN 2 ^ (k - 2)
    ELSE 30

(* C6: with no_retry false, the sleep between the k-th failed invocation *)
(* and the next one is 0s for k = 1, 2^(k-2) s for k = 2..6 and 30s for  *)
(* k >= 7; exactly one sleep separates two consecutive invocations; the  *)
(* waits never decrease and never exceed 30s.                            *)
C6_BackoffSchedule ==
    ~rw.no_retry =>
        /\ \A k \in 1..Len(sleeps) : sleeps[k] = Schedule(k)
        /\ \A k \in 1..(Len(sleeps) - 1) : sleeps[k] <= sleeps[k + 1]
        /\ \A k \in 1..Len(sleeps) : sleeps[k] <= 30
        /\ rw.pc = "call" => Len(sleeps) = Len(calls)
        /\ rw.pc # "call" => Len(sleeps) = Len(calls) - 1

(* The capped part of the schedule is reached: seven failed invocations *)
C6_Witness ==
    /\ ~rw.no_retry
    /\ Len(sleeps) >= 7
    /\ sleeps[6] = 16
    /\ sleeps[7] = 30

(* C7: with no_retry true the operation is invoked exactly once; a      *)
(* success is returned, any failure is propagated unchanged, with no    *)
(* sleep and no second invocation.                                      *)
C7_NoRetryInvokesOnce ==
    rw.no_retry =>
        /\ Len(calls) <= 1
        /\ sleeps = << >>
        /\ rw.pc # "call" => Len(calls) = 1 /\ result.status # "running"
        /\ result.status = "returned" =>
               calls[1].out = "ok" /\ result.value = calls[1].val
        /\ result.status = "raised" => calls[1].out = result.error
        /\ Len(calls) = 1 => rw.pc # "call"

(* A transient failure propagated by a no_retry call *)
C7_Witness ==
    /\ rw.no_retry
    /\ result.status = "raised"
    /\ result.error \in Transient
    /\ Len(calls) = 1

(* C8: with no_retry false a ContractLogicError of any attempt is       *)
(* re-raised at once (no sleep after it, no further invocation); every  *)
(* other failure leads to another invocation; the wrapper only exits by *)
(* returning a success or by re-raising a non-retriable error.          *)
C8_NonRetriableReRaised ==
    ~rw.no_retry =>
        /\ \A j \in 1..Len(calls) :
              calls[j].out = ContractLogicError =>
                  /\ j = Len(calls)
                  /\ Len(sleeps) = j - 1
                  /\ rw.pc = "raised"
                  /\ result = Raised(ContractLogicError)
        /\ \A j \in 1..Len(calls) :
              calls[j].out \in Transient =>
                  \/ j < Len(calls)
                  \/ rw.pc = "call" /\ result.status = "running" /\ Len(sleeps) = j
        /\ result.status = "raised" =>
               result.error = ContractLogicError /\ Last(calls).out = ContractLogicError
        /\ result.status = "returned" =>
               Last(calls).out = "ok" /\ result.value = Last(calls).val

(* A ContractLogicError raised on a later attempt, after two retries *)
C8_Witness ==
    /\ ~rw.no_retry
    /\ Len(calls) = 3
    /\ calls[1].out \in Transient
    /\ calls[2].out \in Transient
    /\ result = Raised(ContractLogicError)

-----------------------------------------------------------------------------
(* Properties of the batch middleware, checked under SpecBatch.  The     *)
(* top-level request list is input; request k is its k-th request.       *)

BatchCalls == {j \in 1..Len(calls) : calls[j].op = "make_batch_request"}

(* C1: for a non-empty request list and rpc_batch_max_size >= 1, when   *)
(* the middleware returns, the output has as many responses as there    *)
(* were requests and the response at position k answers request k.      *)
C1_LengthAndOrder ==
    (rpc_batch_max_size >= 1 /\ Len(input) > 0 /\ result.status = "returned") =>
        /\ Len(result.value) = Len(input)
        /\ \A k \in 1..Len(input) : result.value[k].req = input[k]

(* A return after chunking, a partial failure and a bisection *)
C1_Witness ==
    /\ result.status = "returned"
    /\ rpc_batch_max_size >= 2
    /\ Len(input) > rpc_batch_max_size
    /\ \E j \in BatchCalls : calls[j].out = "failed"
    /\ \E j \in BatchCalls : calls[j].out = "mismatch"

(* C2: with rpc_batch_max_size = 0 a non-empty request list is executed *)
(* request by request through exponential_retry, with no batch call,    *)
(* and one response per request is returned in input order.             *)
C2_NoBatchSupport ==
    (rpc_batch_max_size = 0 /\ Len(input) > 0) =>
        /\ BatchCalls = {}
        /\ result.status = "raised" =>
               \E j \in 1..Len(calls) : calls[j].out \in Exceptions
        /\ result.status = "returned" =>
               /\ Len(result.value) = Len(input)
               /\ \A k \in 1..Len(input) : result.value[k].req = input[k]

(* The chunk, counted from 0, that request r of the top-level list is in *)
ChunkOf(r) == (r - 1) \div rpc_batch_max_size

(* The requests of chunk c of the top-level list *)
WholeChunk(c) ==
    [k \in 1..(Min((c + 1) * rpc_batch_max_size, Len(input)) - c * rpc_batch_max_size)
        |-> c * rpc_batch_max_size + k]

(* C3: with rpc_batch_max_size >= 1 a batch call never holds more than  *)
(* rpc_batch_max_size requests, nor fewer than 2; a longer list is cut  *)
(* into consecutive chunks of rpc_batch_max_size requests, processed    *)
(* left to right: every call stays inside one chunk, the chunks are     *)
(* visited in order, and the first call of a chunk is the whole chunk.  *)
C3_ChunkingBoundsBatches ==
    rpc_batch_max_size >= 1 =>
        /\ \A j \in BatchCalls :
              Len(calls[j].arg) >= 2 /\ Len(calls[j].arg) <= rpc_batch_max_size
        /\ \A j \in 1..Len(calls) : \A r \in Range(calls[j].arg) :
              ChunkOf(r) = ChunkOf(calls[j].arg[1])
        /\ \A j \in 1..(Len(calls) - 1) :
              ChunkOf(calls[j].arg[1]) <= ChunkOf(calls[j + 1].arg[1])
        /\ \A j \in 1..Len(calls) :
              (j = 1 \/ ChunkOf(calls[j - 1].arg[1]) < ChunkOf(calls[j].arg[1])) =>
                  calls[j].arg = WholeChunk(ChunkOf(calls[j].arg[1]))
        /\ result.status = "returned" /\ Len(input) > 0 =>
              ChunkOf(Last(calls).arg[1]) = ChunkOf(Len(input))

(* Two full chunks and a rest of one request (5 requests with           *)
(* rpc_batch_max_size 2, 7 with 3): calls of sizes m, m and 1, in order  *)
C3_Witness ==
    /\ rpc_batch_max_size >= 2
    /\ Len(input) = 2 * rpc_batch_max_size + 1
    /\ result.status = "returned"
    /\ Len(calls) = 3
    /\ calls[1].arg = SubSeq(input, 1, rpc_batch_max_size)
    /\ calls[2].arg = SubSeq(input, rpc_batch_max_size + 1, 2 * rpc_batch_max_size)
    /\ calls[3].arg = << Last(input) >>
    /\ calls[3].op = "make_request"

(* C4: if a batch call returns one response per request of which        *)
(* exactly the one at index i is failed, and the next call succeeds,    *)
(* then that next call is request i alone, no request of the batch is   *)
(* sent after it, and the final responses of the batch are the retry's  *)
(* at index i and the first attempt's everywhere else.                  *)
C4_OnlyFailedRequestRetried ==
    \A j \in BatchCalls :
        (/\ calls[j].out = "failed"
         /\ Cardinality(calls[j].bad) = 1
         /\ j < Len(calls)
         /\ calls[j + 1].out = "ok") =>
            LET c == calls[j]
                i == CHOOSE i \in c.bad : TRUE
            IN  /\ calls[j + 1].op = "make_request"
                /\ calls[j + 1].arg = << c.arg[i] >>
                /\ \A l \in (j + 2)..Len(calls) :
                      Range(calls[l].arg) \cap Range(c.arg) = {}
                /\ \A k \in 1..Len(c.arg) :
                      SentUpTo(c.arg[k], Len(calls)) - SentUpTo(c.arg[k], j - 1)
                          = IF k = i THEN 2 ELSE 1
                /\ result.status = "returned" =>
                      \A k \in 1..Len(c.arg) :
                          result.value[c.arg[k]] =
                              IF k = i THEN calls[j + 1].val[1] ELSE c.val[k]

(* A batch of three whose second response is failed, retried once *)
C4_Witness ==
    /\ result.status = "returned"
    /\ Len(input) = 3
    /\ Len(calls) = 2
    /\ calls[1].op = "make_batch_request"
    /\ calls[1].bad = {2}
    /\ calls[2].out = "ok"
    /\ result.value[2].att = 2
    /\ result.value[1].att = 1

(* C5: if no transport call raises, returns a wrong number of responses *)
(* or returns a failed response, the middleware sends every request     *)
(* exactly once, never sleeps, and returns the transport's responses in *)
(* input order.                                                         *)
C5_NoFailureNoRetry ==
    (\A j \in 1..Len(calls) : calls[j].out = "ok") =>
        /\ sleeps = << >>
        /\ \A k \in 1..Len(input) : Sent(input[k]) <= 1
        /\ result.status # "raised"
        /\ result.status = "returned" =>
              /\ Len(result.value) = Len(input)
              /\ \A k \in 1..Len(input) :
                    /\ Sent(input[k]) = 1
                    /\ result.value[k] = Response(input[k], 1, "ok")
                    /\ \E j \in 1..Len(calls) : \E m \in 1..Len(calls[j].val) :
                          calls[j].val[m] = result.value[k]

(* C5 where the transport supports batches *)
C5_HoldsWithBatchSupport == rpc_batch_max_size >= 1 => C5_NoFailureNoRetry

-----------------------------------------------------------------------------
(* Non-retriable errors in get_logs and the batch middleware *)

(* C9: a ContractLogicError raised by the transport during get_logs or  *)
(* the batch middleware is propagated at once to the top-level caller:  *)
(* it is the last transport call of the top-level call, and that call   *)
(* ends with this error.  (rw.pc = "raised": the error is on its way    *)
(* out of exponential_retry.)                                           *)
C9_NonRetriablePropagatesAtOnce ==
    \A j \in 1..Len(calls) :
        calls[j].out = ContractLogicError =>
            /\ j = Len(calls)
            /\ result = Raised(ContractLogicError) \/ rw.pc = "raised"

-----------------------------------------------------------------------------
(* Properties of _find_max_filter_range, checked under SpecCalib *)

(* The candidates the canary queries of the history were made for *)
CandidatesTried == [j \in 1..Len(calls) |-> calls[j].arg[2] - calls[j].arg[1] + 1]

(* C10 as amended: with the candidates 10000, ..., 1 and an endpoint    *)
(* that rejects exactly the queries over more than 500 blocks,          *)
(* _find_max_filter_range returns exactly 500, after trying 10000,      *)
(* 5000, 2000, 1000 and 500.                                            *)
C10_CalibrationReturns500 ==
    ep = LimitEndpoint(500) =>
        /\ result.status # "raised"
        /\ cal.pc = "done" =>
              /\ result = Returned(<< 500 >>)
              /\ filter_block_range = 500
              /\ CandidatesTried = << 10000, 5000, 2000, 1000, 500 >>

(* The calibration against that endpoint has ended *)
C10_Witness ==
    /\ ep = LimitEndpoint(500)
    /\ cal.pc = "done"
    /\ result.status = "returned"
    /\ Len(calls) = 5

(* C10 as stated: against that endpoint _find_max_filter_range returns  *)
(* exactly 200.                                                         *)
C10_CalibrationReturns200 ==
    (ep = LimitEndpoint(500) /\ cal.pc = "done") => result = Returned(<< 200 >>)

(* C11: _find_max_filter_range tries the candidates from the largest to *)
(* the smallest, with at most one canary query per candidate, each over *)
(* exactly as many blocks as the candidate and ending at                *)
(* current_block - 5.  It returns the first candidate whose query       *)
(* returns [] without raising, and queries nothing after it.  It raises *)
(* exactly when all 13 candidates, 1 included, have failed.  The value  *)
(* returned is one of the candidates and at least 1.                    *)
C11_CalibrationOrder ==
    /\ Len(calls) <= 13
    /\ \A j \in 1..Len(calls) :
          /\ calls[j].op = "_get_logs"
          /\ calls[j].arg[2] = cal.current_block - 5
          /\ CandidatesTried[j] = FILTER_RANGES_TO_TRY[j]
    /\ \A j \in 1..(Len(calls) - 1) :
          /\ CandidatesTried[j] > CandidatesTried[j + 1]
          /\ calls[j].out # "ok"
    /\ \A j \in 1..Len(calls) :
          calls[j].out = "ok" =>
              /\ j = Len(calls)
              /\ cal.pc = "done"
              /\ result = Returned(<< CandidatesTried[j] >>)
              /\ filter_block_range = CandidatesTried[j]
    /\ result.status = "returned" =>
          /\ calls # << >>
          /\ Last(calls).out = "ok"
          /\ result.value[1] >= 1
          /\ result.value[1] \in
                 {10000, 5000, 2000, 1000, 500, 200, 100, 50, 20, 10, 5, 2, 1}
    /\ result.status = "raised" <=>
          /\ Len(calls) = 13
          /\ CandidatesTried[13] = 1
          /\ \A j \in 1..13 : calls[j].out # "ok"
    /\ cal.pc = "done" <=> result.status # "running"

(* A candidate is returned after one canary query raised and another    *)
(* returned logs                                                        *)
C11_Witness ==
    /\ ep = AnyEndpoint
    /\ result.status = "returned"
    /\ \E j \in 1..Len(calls) : calls[j].out = "nonempty"
    /\ \E j \in 1..Len(calls) : calls[j].out = "ConnectionError"
    /\ Last(calls).out = "ok"
    /\ result.value[1] < 10000

(* Calibration fails: all 13 candidates were tried *)
C11_WitnessExhausted ==
    /\ result = Raised("ValueError")
    /\ Len(calls) = 13

-----------------------------------------------------------------------------
(* Properties of get_logs, checked under SpecLogs.  input is the filter  *)
(* of the top-level call, calls[j].arg the block range of the j-th query *)

NumericInput == input[1].tag = "int" /\ input[2].tag = "int"

(* Number of blocks of the j-th query *)
QuerySize(j) == calls[j].arg[2] - calls[j].arg[1] + 1

(* The part, counted from 0, of the top-level range that block b is in   *)
(* when the range is cut every filter_block_range blocks                  *)
PartOf(b) == (b - input[1].n) \div filter_block_range

(* The block range of part p *)
WholePart(p) ==
    << input[1].n + p * filter_block_range,
       Min(input[1].n + (p + 1) * filter_block_range - 1, input[2].n) >>

AllQueriesOk == \A j \in 1..Len(calls) : calls[j].out = "ok"

(* C12: for numeric bounds and a range of more than filter_block_range  *)
(* blocks, get_logs cuts the range into consecutive parts of exactly    *)
(* filter_block_range blocks (the last may be shorter) and queries them *)
(* in ascending order: no query is over more than filter_block_range    *)
(* blocks, every query stays inside one part, the parts are visited in  *)
(* order and the first query of a part is the whole part.  When every   *)
(* query succeeds there are exactly ceil(size / filter_block_range)     *)
(* queries, the j-th being part j, and the result is the concatenation  *)
(* of their results in that order.                                      *)
C12_PresplitParts ==
    (NumericInput /\ input[2].n - input[1].n + 1 > filter_block_range) =>
        LET size == input[2].n - input[1].n + 1
            parts == (size + filter_block_range - 1) \div filter_block_range
        IN  /\ \A j \in 1..Len(calls) :
                  /\ QuerySize(j) >= 1
                  /\ QuerySize(j) <= filter_block_range
                  /\ calls[j].arg[1] >= input[1].n
                  /\ calls[j].arg[2] <= input[2].n
                  /\ PartOf(calls[j].arg[1]) = PartOf(calls[j].arg[2])
            /\ \A j \in 1..(Len(calls) - 1) :
                  PartOf(calls[j].arg[1]) <= PartOf(calls[j + 1].arg[1])
            /\ \A j \in 1..Len(calls) :
                  (j = 1 \/ PartOf(calls[j - 1].arg[1]) < PartOf(calls[j].arg[1])) =>
                      calls[j].arg = WholePart(PartOf(calls[j].arg[1]))
            /\ AllQueriesOk =>
                  /\ Len(calls) <= parts
                  /\ \A j \in 1..Len(calls) :
                        /\ calls[j].arg = WholePart(j - 1)
                        /\ QuerySize(j) = IF j < parts \/ size % filter_block_range = 0
                                          THEN filter_block_range
                                          ELSE size % filter_block_range
                  /\ result.status # "raised"
                  /\ result.status = "returned" =>
                        /\ Len(calls) = parts
                        /\ result.value = Blocks(input[1].n, input[2].n)
                        /\ \A k \in 1..(Len(result.value) - 1) :
                              result.value[k] < result.value[k + 1]

(* Five blocks with filter_block_range 2: three queries of 2, 2 and 1   *)
(* blocks, all successful                                               *)
C12_Witness ==
    /\ NumericInput
    /\ filter_block_range = 2
    /\ input[2].n - input[1].n + 1 = 5
    /\ result.status = "returned"
    /\ AllQueriesOk
    /\ Len(calls) = 3
    /\ QuerySize(1) = 2 /\ QuerySize(2) = 2 /\ QuerySize(3) = 1

RECURSIVE OkBlocks(_)
OkBlocks(j) ==
    IF j = 0 THEN 0
    ELSE OkBlocks(j - 1) + (IF calls[j].out = "ok" THEN QuerySize(j) ELSE 0)

(* The successful queries, in the order they were made *)
OkQueries == {j \in 1..Len(calls) : calls[j].out = "ok"}

(* C14: for a top-level call with numeric bounds and a progress bar,    *)
(* the amounts handed to p_bar.update never exceed the blocks of the    *)
(* successful queries (a failed query reports nothing), the successful  *)
(* queries share no block, and when the call returns the amounts sum to *)
(* exactly toBlock - fromBlock + 1, whatever was cut, split or retried. *)
C14_ProgressSumsToRange ==
    (NumericInput /\ has_pbar) =>
        /\ progress <= OkBlocks(Len(calls))
        /\ progress <= input[2].n - input[1].n + 1
        /\ \A i \in OkQueries : \A j \in OkQueries :
              i < j => calls[i].arg[2] < calls[j].arg[1]
        /\ (rw.pc = "idle" /\ result.status # "raised") =>
              progress = OkBlocks(Len(calls))
        /\ result.status = "returned" =>
              progress = input[2].n - input[1].n + 1

(* A call that cut its range, split one part after a failure and       *)
(* retried a single block has returned                                 *)
C14_Witness ==
    /\ NumericInput
    /\ has_pbar
    /\ result.status = "returned"
    /\ input[2].n - input[1].n + 1 > filter_block_range
    /\ \E j \in 1..Len(calls) : calls[j].out # "ok" /\ QuerySize(j) > 1
    /\ \E j \in 1..Len(calls) : calls[j].out # "ok" /\ QuerySize(j) = 1
    /\ progress = input[2].n - input[1].n + 1
    /\ progress >= 3

-----------------------------------------------------------------------------
(* Failures of single requests in the batch middleware, under SpecBatch *)

(* The except clause of line 37 is about to run for the running frame:  *)
(* an individual request raised out of exponential_retry                *)
InHandler == BAt("single") /\ rw.pc = "raised"

(* C15: the exception handler of the middleware is only entered for a   *)
(* list of more than one request: whenever it is entered the assertion  *)
(* len(requests_info) > 1 holds, for either value of should_retry and   *)
(* any exception of the single call, so the middleware never ends with  *)
(* an AssertionError.                                                   *)
C15_HandlerOnlyForBatches ==
    /\ InHandler => Len(BTop.requests_info) > 1
    /\ result # Raised("AssertionError")

(* C15 where the transport call of a single request never raises out of *)
(* exponential_retry                                                    *)
C15_HoldsUnlessSingleRaises ==
    (\A j \in 1..Len(calls) :
        (calls[j].op = "make_request" /\ calls[j].out \in Exceptions) =>
            (j < Len(calls) \/ rw.pc = "call")) => C15_HandlerOnlyForBatches

(* C16: with should_retry false, a request executed on its own whose    *)
(* call fails, by raising or by returning a response with an error or a *)
(* null result, is not executed again: it is sent exactly once, the     *)
(* middleware neither sleeps nor recurses on it, and the top-level call *)
(* ends with an error instead of returning.                             *)
C16_FailedSingleNotRepeated ==
    (~should_retry /\ rpc_batch_max_size >= 1) =>
        \A j \in 1..Len(calls) :
            (calls[j].op = "make_request" /\ calls[j].out # "ok") =>
                /\ j = Len(calls)
                /\ Sent(calls[j].arg[1]) = SentUpTo(calls[j].arg[1], j)
                /\ sleeps = << >>
                /\ result.status # "returned"
                /\ \A k \in 1..Len(bstack) :
                      bstack[k].pc = "splice" =>
                          bstack[k].requests_info # calls[j].arg

(* C16 for a first call that raises: the request is not sent again and  *)
(* the top-level call ends with an error (the AssertionError of line    *)
(* 38, see C15).                                                        *)
C16_RaisingSingleNotRepeated ==
    (/\ ~should_retry
     /\ rpc_batch_max_size >= 1
     /\ Len(input) = 1
     /\ calls # << >>
     /\ calls[1].out \in Exceptions) =>
        /\ Len(calls) = 1
        /\ sleeps = << >>
        /\ result.status # "returned"
        /\ rw.pc = "idle" => result = Raised("AssertionError")

-----------------------------------------------------------------------------
(* The recursion of the batch middleware, under SpecBatch.  bstack[k] is *)
(* the activation that called bstack[k + 1].                             *)

(* The activations called with the list of their caller *)
SameListFrames ==
    {k \in 2..Len(bstack) : bstack[k].requests_info = bstack[k - 1].requests_info}

(* C17: with rpc_batch_max_size >= 1 every recursive call of the        *)
(* middleware is made on a non-empty list strictly shorter than its     *)
(* caller's, except the call that executes a list again after all of    *)
(* its responses were failed (same list, after sleep(1)).  A list is    *)
(* only cut in two when it holds at least 2 requests, and both halves   *)
(* are non-empty.  So the depth of the recursion is at most the length  *)
(* of the top-level list plus the number of rounds in which every       *)
(* response was failed.                                                 *)
C17_RecursionShrinks ==
    rpc_batch_max_size >= 1 =>
        /\ \A k \in 2..Len(bstack) :
              LET parent == bstack[k - 1]
                  child == bstack[k].requests_info
              IN  /\ Len(child) >= 1
                  /\ \/ Len(child) < Len(parent.requests_info)
                     \/ /\ parent.pc = "splice"
                        /\ child = parent.requests_info
                        /\ Len(parent.request_indexes) = Len(parent.requests_info)
                        /\ \E i \in 1..Len(sleeps) : sleeps[i] = 1
                  /\ parent.pc \in {"chunk", "splice", "left", "right"}
                  /\ parent.pc \in {"left", "right"} =>
                        /\ Len(parent.requests_info) >= 2
                        /\ Len(child) >= 1
                        /\ Len(child) < Len(parent.requests_info)
                        /\ Len(child) >= Len(parent.requests_info) \div 2
                  /\ parent.pc = "chunk" => Len(child) <= rpc_batch_max_size
        /\ Cardinality(SameListFrames) <= Len(sleeps)
        /\ Len(bstack) <= Len(input) + Cardinality(SameListFrames) + 1
        /\ Len(input) > 0 => Len(bstack) <= Len(input) + Cardinality(SameListFrames)

(* A list of two is cut in two after a short answer; the response to    *)
(* its first request is failed and the request is executed again        *)
C17_Witness ==
    /\ rpc_batch_max_size >= 2
    /\ Len(bstack) = 3
    /\ bstack[1].pc = "left"
    /\ Len(bstack[1].requests_info) = 2
    /\ bstack[2].pc = "splice"
    /\ bstack[3].requests_info = bstack[2].requests_info
    /\ Last(sleeps) = 1

(* C20: whenever the middleware returns normally, for                   *)
(* rpc_batch_max_size >= 1 and either value of should_retry, no         *)
(* response of its output carries an error or has a null result, at     *)
(* the top level and in every recursive call.  A request whose response *)
(* was failed has been executed again: the response returned for a      *)
(* request is the one to the last time it was sent.                     *)
C20_NoFailedResponseReturned ==
    rpc_batch_max_size >= 1 =>
        /\ \A k \in 1..Len(bret) : bret[k].st = "ok"
        /\ result.status = "returned" =>
              \A k \in 1..Len(result.value) :
                  /\ result.value[k].st = "ok"
                  /\ result.value[k].st \notin {"error", "null"}
                  /\ result.value[k].att = Sent(result.value[k].req)
        /\ \A j \in 1..Len(calls) : \A i \in 1..Len(calls[j].val) :
              (calls[j].out = "failed" /\ calls[j].val[i].st # "ok"
                  /\ result.status = "returned") =>
                  Sent(calls[j].val[i].req) > SentUpTo(calls[j].val[i].req, j)

(* A batch of two in which one response carried an error and the other  *)
(* a null result has returned after both were executed again            *)
C20_Witness ==
    /\ result.status = "returned"
    /\ Len(input) = 2
    /\ calls # << >>
    /\ calls[1].op = "make_batch_request"
    /\ calls[1].val[1].st = "error"
    /\ calls[1].val[2].st = "null"
    /\ \A k \in 1..2 : result.value[k].st = "ok" /\ result.value[k].att = 2

-----------------------------------------------------------------------------
(* The ranges queried by get_logs, under SpecLogs *)

(* The successful queries that hold block b *)
OkQueriesOf(b) == {j \in OkQueries : calls[j].arg[1] <= b /\ b <= calls[j].arg[2]}

(* C18: for numeric bounds 0 <= fromBlock <= toBlock, the successful    *)
(* queries are made in ascending block order, share no block and are    *)
(* each over 1 to filter_block_range blocks; when get_logs returns they *)
(* cover every block of fromBlock..toBlock exactly once and the result  *)
(* is their results in that order.  A failed query over from..to of     *)
(* more than one block is followed by the query of from..mid, with      *)
(* mid = floor((from + to) / 2), and later by that of mid+1..to; both   *)
(* halves are non-empty.                                                *)
C18_QueriesPartitionRange ==
    NumericInput =>
        /\ \A j \in OkQueries :
              QuerySize(j) >= 1 /\ QuerySize(j) <= filter_block_range
        /\ \A i \in OkQueries : \A j \in OkQueries :
              i < j => calls[i].arg[2] < calls[j].arg[1]
        /\ \A b \in input[1].n..input[2].n : Cardinality(OkQueriesOf(b)) <= 1
        /\ result.status = "returned" =>
              /\ \A b \in input[1].n..input[2].n : Cardinality(OkQueriesOf(b)) = 1
              /\ \A j \in OkQueries :
                    calls[j].arg[1] >= input[1].n /\ calls[j].arg[2] <= input[2].n
              /\ result.value = Blocks(input[1].n, input[2].n)
        /\ \A j \in 1..Len(calls) :
              (calls[j].out # "ok" /\ QuerySize(j) > 1) =>
                  LET from == calls[j].arg[1]
                      to == calls[j].arg[2]
                      mid == (from + to) \div 2
                  IN  /\ from <= mid /\ mid < to
                      /\ 2 * mid <= from + to /\ from + to <= 2 * mid + 1
                      /\ j < Len(calls) => calls[j + 1].arg = << from, mid >>
                      /\ \A l \in (j + 1)..Len(calls) :
                            calls[l].arg[1] > mid =>
                                \E m \in (j + 2)..l : calls[m].arg = << mid + 1, to >>
                      /\ result.status = "returned" =>
                            \E m \in (j + 2)..Len(calls) :
                                calls[m].arg = << mid + 1, to >>

(* A range of three blocks fails and is split into two blocks and one;  *)
(* the two blocks fail and are split again; get_logs returns            *)
C18_Witness ==
    /\ NumericInput
    /\ result.status = "returned"
    /\ Len(calls) = 5
    /\ QuerySize(1) = 3 /\ calls[1].out # "ok"
    /\ QuerySize(2) = 2 /\ calls[2].out # "ok"
    /\ QuerySize(3) = 1 /\ QuerySize(4) = 1 /\ QuerySize(5) = 1
    /\ calls[5].arg[2] = input[2].n

(* Size of the range of the top-level call as lines 90-98 resolved it *)
TopSize == top_range[2] - top_range[1] + 1

InsideTopRange ==
    \A j \in 1..Len(calls) :
        calls[j].arg[1] >= top_range[1] /\ calls[j].arg[2] <= top_range[2]

(* C19: when get_logs is called with toBlock "latest" and the chain     *)
(* head may advance between transport calls, the bounds are resolved    *)
(* once, by the top-level call: every query of the call lies inside the *)
(* range fromBlock..toBlock as the top-level call resolved it, and when *)
(* the call returns, the blocks covered and the progress reported equal *)
(* the size of that range.                                              *)
C19_BoundsResolvedOnce ==
    (input[2].tag = "latest" /\ top_range # << >>) =>
        /\ InsideTopRange
        /\ result.status = "returned" =>
              /\ result.value = Blocks(top_range[1], top_range[2])
              /\ OkBlocks(Len(calls)) = TopSize
              /\ has_pbar => progress = TopSize

(* C19 for numeric bounds *)
C19_HoldsForNumericBounds ==
    (NumericInput /\ top_range # << >>) =>
        /\ InsideTopRange
        /\ result.status = "returned" =>
              /\ result.value = Blocks(top_range[1], top_range[2])
              /\ OkBlocks(Len(calls)) = TopSize
              /\ has_pbar => progress = TopSize

-----------------------------------------------------------------------------
(* Every entry point *)

Init == InitRetry \/ InitBatch \/ InitLogs \/ InitCalib

Next == NextRetry \/ NextBatch \/ NextLogs \/ NextCalib

Spec == Init /\ [][Next]_vars

=============================================================================
